---- MODULE Spec2Model ----
(***************************************************************************)
(* Model of the retrieval-and-generation pipeline of src/api/rag_2.py.     *)
(*                                                                         *)
(* Python strings are sequences of one-character strings, so that len,     *)
(* strip, escape, lower and join are computed as the code computes them.   *)
(* A Python call that can raise is an operator returning a record          *)
(* [exc, val]: exc = "none" and the returned value, or the exception's     *)
(* class name.  Distances are in hundredths (0.35 is 35).                  *)
(***************************************************************************)
EXTENDS Integers, Sequences, FiniteSets, TLC

VARIABLES
    v_text,      \* validate_input: the argument
    v_res,       \* validate_input: the outcome, or NotCalled
    f_out,       \* retrieval: what the embedding backend and the index answer
    f_ctx,       \* retrieval: the context returned, or NotCalled
    p_lang,      \* create_efficient_prompt: argument lang
    p_context,   \* create_efficient_prompt: argument context
    p_text,      \* create_efficient_prompt: argument text
    p_det,       \* create_efficient_prompt: what detect(lang) answered
    p_res,       \* create_efficient_prompt: the outcome, or NotCalled
    s_backend,   \* streaming: what the generation backend does on this connection
    s_gen,       \* streaming: the generator object, its state and line position
    s_delivered, \* streaming: the fragments the consumer has received
    s_raised,    \* streaming: the exception next() raised to the consumer
    ctx_cache,   \* lru_cache of get_relevant_context, least recently used first
    resp_cache,  \* lru_cache of get_model_response, least recently used first
    n_index,     \* calls made to the vector index
    n_embed,     \* calls made to the embedding backend
    n_gen,       \* calls made to the generation backend
    m_last,      \* the latest call of main and what it returned
    r_last,      \* the latest call of get_relevant_context
    g_last,      \* the latest call of get_model_response
    q_text,      \* model selection: the raw text of the request
    q_kwargs,    \* model selection: the keyword arguments of the request
    q_model,     \* model selection: the model main selects, or NotSelected
    l_kind,      \* one cache: "context" or "response", the function it decorates
    l_cache,     \* one cache: its entries, least recently used first
    l_recent,    \* one cache: every key stored or hit so far, latest use last
    l_last,      \* one cache: the latest call of the decorated function
    t_workers,   \* race: the two requests' positions in the decorated function
    t_later      \* race: what a lookup after the race returned, or NotCalled

NotCalled == [exc |-> "notcalled", val |-> <<>>]
Ok(v) == [exc |-> "none", val |-> v]
Raise(e) == [exc |-> e, val |-> <<>>]

(***************************************************************************)
(* Bounds of the model and the configured settings.                       *)
(***************************************************************************)
\* longest raw text given to validate_input
MaxTextLen == 8

\* Settings.max_input_length, configured small here (default 2000)
max_input_length == 6

\* "minimum 5 characters" of validate_input
MinInputLength == 5

\* characters raw texts are drawn from: blank, plain, two escaped ones
TextChars == {" ", "a", "&", "'"}

\* most passages the index returns for one query (n_results = top_k = 5)
MaxDocs == 3

\* Settings.min_context_distance, 0.35 in hundredths
min_context_distance == 35

\* the distances the index reports, in hundredths
Distances == {34, 35, 50}

\* the stored passages
Passages == {<<"p">>, <<"q", "r">>}

\* longest language value given to create_efficient_prompt
MaxLangLen == 4

\* characters language values are drawn from
LangChars == {"d", "e", "D", "E", "n"}

\* Settings.cache_size, configured small here (default 100)
cache_size == 2

\* number of requests main is called with
MaxCalls == 2

\* most lines the generation backend sends on one streaming connection
MaxLines == 3

\* the content fields the backend's chunks carry
Fragments == {<<"x">>, <<"y">>}

\* [:5000] of postprocess_response
OutputLimit == 5000

\* context[:500] of create_efficient_prompt
ContextLimit == 500

(***************************************************************************)
(* Strings                                                                 *)
(***************************************************************************)
\* str.strip() with no argument removes these from both ends
IsSpace(c) == c \in {" ", "\t", "\n", "\r"}

RECURSIVE LStrip(_)
LStrip(s) == IF s # <<>> /\ IsSpace(Head(s)) THEN LStrip(Tail(s)) ELSE s

RECURSIVE RStrip(_)
RStrip(s) ==
    IF s # <<>> /\ IsSpace(s[Len(s)]) THEN RStrip(SubSeq(s, 1, Len(s) - 1)) ELSE s

Strip(s) == RStrip(LStrip(s))

\* html.escape(c, quote=True) of one character
EscapeChar(c) ==
    CASE c = "&" -> <<"&", "a", "m", "p", ";">>
      [] c = "<" -> <<"&", "l", "t", ";">>
      [] c = ">" -> <<"&", "g", "t", ";">>
      [] c = "\"" -> <<"&", "q", "u", "o", "t", ";">>
      [] c = "'" -> <<"&", "#", "x", "2", "7", ";">>
      [] OTHER -> <<c>>

RECURSIVE Escape(_)
Escape(s) == IF s = <<>> THEN <<>> ELSE EscapeChar(Head(s)) \o Escape(Tail(s))

(***************************************************************************)
(* validate_input                                                          *)
(***************************************************************************)
\* variant: the minimum-length test written with <= instead of <
validate_input_le(text) ==
    IF Len(Strip(text)) <= MinInputLength THEN Raise("ValueError")
    ELSE IF Len(text) > max_input_length THEN Raise("ValueError")
    ELSE Ok(Strip(Escape(text)))

\* variant: the maximum-length test left out
validate_input_nomax(text) ==
    IF Len(Strip(text)) < MinInputLength THEN Raise("ValueError")
    ELSE Ok(Strip(Escape(text)))

validate_input(text) ==
    IF Len(Strip(text)) < MinInputLength THEN Raise("ValueError")
    ELSE IF Len(text) > max_input_length THEN Raise("ValueError")
    ELSE Ok(Strip(Escape(text)))

(***************************************************************************)
(* get_relevant_context without its cache: the decorated function's body   *)
(***************************************************************************)
\* what the backends answer to one retrieval
RetrievalOk(documents, distances) ==
    [kind |-> "ok", documents |-> documents, distances |-> distances]

RetrievalFailures ==
    {[kind |-> k, documents |-> <<>>, distances |-> <<>>] :
        k \in {"connect_fail", "embed_fail", "query_fail"}}

Min(a, b) == IF a <= b THEN a ELSE b

\* variant: the comparison with the threshold written with <=
RECURSIVE filtered_le(_, _)
filtered_le(documents, distances) ==
    IF documents = <<>> \/ distances = <<>> THEN <<>>
    ELSE (IF Head(distances) <= min_context_distance THEN <<Head(documents)>> ELSE <<>>)
         \o filtered_le(Tail(documents), Tail(distances))

\* [doc for doc, distance in zip(documents, distances) if distance < threshold]
RECURSIVE filtered(_, _)
filtered(documents, distances) ==
    IF documents = <<>> \/ distances = <<>> THEN <<>>
    ELSE (IF Head(distances) < min_context_distance THEN <<Head(documents)>> ELSE <<>>)
         \o filtered(Tail(documents), Tail(distances))

\* sep.join(parts)
RECURSIVE Join(_, _)
Join(sep, parts) ==
    IF parts = <<>> THEN <<>>
    ELSE IF Len(parts) = 1 THEN Head(parts)
    ELSE Head(parts) \o sep \o Join(sep, Tail(parts))

\* the try block: connect, embed, query, filter, join
retrieve_try(out) ==
    IF out.kind # "ok" THEN Raise("Exception")
    ELSE LET kept == filtered(out.documents, out.distances)
         IN  Ok(IF kept # <<>> THEN Join(<<" ">>, kept) ELSE <<>>)

\* variant: the except clause re-raises
get_relevant_context_reraise(out) == retrieve_try(out)

\* the body with its except clause: any exception becomes ""
get_relevant_context_body(out) ==
    LET r == retrieve_try(out)
    IN  IF r.exc # "none" THEN Ok(<<>>) ELSE r

(***************************************************************************)
(* create_efficient_prompt                                                 *)
(***************************************************************************)
UpperLetters ==
    <<"A", "B", "C", "D", "E", "F", "G", "H", "I", "J", "K", "L", "M",
      "N", "O", "P", "Q", "R", "S", "T", "U", "V", "W", "X", "Y", "Z">>

LowerLetters ==
    <<"a", "b", "c", "d", "e", "f", "g", "h", "i", "j", "k", "l", "m",
      "n", "o", "p", "q", "r", "s", "t", "u", "v", "w", "x", "y", "z">>

LowerChar(c) ==
    IF \E i \in 1..26 : UpperLetters[i] = c
    THEN LowerLetters[CHOOSE i \in 1..26 : UpperLetters[i] = c]
    ELSE c

\* str.lower()
Lower(s) == [i \in 1..Len(s) |-> LowerChar(s[i])]

de == <<"d", "e">>
en == <<"e", "n">>
german == <<"g", "e", "r", "m", "a", "n">>

\* what langdetect.detect answers: a language code, or it raises
DetectOutcomes == {Ok(de), Ok(en), Raise("LangDetectException")}

\* the pieces system_content is concatenated from
RuleSegment(lang) == [seg |-> "Rule: Strictly give answer in", arg |-> lang]
DomainSegment == [seg |-> "This description describes", arg |-> <<>>]
FormatSegment(lang) == [seg |-> "Format: Improved:", arg |-> lang]
GermanSegment == [seg |-> "German Improved: [text in German]", arg |-> <<>>]
ContextSegment(context) ==
    [seg |-> "Context:", arg |-> SubSeq(context, 1, Min(ContextLimit, Len(context)))]

Messages(system_content, text) ==
    <<[role |-> "system", content |-> system_content],
      [role |-> "user", content |-> text]>>

\* variant: the language code is compared without being lower-cased
create_efficient_prompt_nolower(lang, context, text, det) ==
    LET detected == IF Len(lang) > 3 THEN det ELSE Ok(lang)
    IN  IF detected.exc # "none" THEN detected
        ELSE LET include_german == detected.val \notin {de, german}
             IN  Ok(Messages(<<RuleSegment(lang), DomainSegment, FormatSegment(lang)>>
                             \o (IF include_german THEN <<GermanSegment>> ELSE <<>>)
                             \o <<ContextSegment(context)>>, text))

\* det is what detect(lang) answers if it is called
create_efficient_prompt(lang, context, text, det) ==
    LET detected == IF Len(lang) > 3 THEN det ELSE Ok(Lower(lang))
    IN  IF detected.exc # "none" THEN detected
        ELSE LET include_german == detected.val \notin {de, german}
             IN  Ok(Messages(<<RuleSegment(lang), DomainSegment, FormatSegment(lang)>>
                             \o (IF include_german THEN <<GermanSegment>> ELSE <<>>)
                             \o <<ContextSegment(context)>>, text))

(***************************************************************************)
(* postprocess_response                                                    *)
(***************************************************************************)
original_ == <<"o", "r", "i", "g", "i", "n", "a", "l", ":">>
improved_ == <<"i", "m", "p", "r", "o", "v", "e", "d", ":">>

\* word occurs in s at position i, letter case ignored
MatchesAt(s, i, word) ==
    /\ i >= 1
    /\ i + Len(word) - 1 <= Len(s)
    /\ Lower(SubSeq(s, i, i + Len(word) - 1)) = word

\* the first position from j on that holds no white space
RECURSIVE SkipSpace(_, _)
SkipSpace(s, j) == IF j <= Len(s) /\ IsSpace(s[j]) THEN SkipSpace(s, j + 1) ELSE j

\* \n*\s*Improved: matches at position j
ImprovedFrom(s, j) == MatchesAt(s, SkipSpace(s, j), improved_)

\* re.sub of (Original:.*?)(\n*\s*Improved:) by \1\n\n\n\2, from position i on
RECURSIVE SeparateImproved(_, _)
SeparateImproved(s, i) ==
    IF i > Len(s) THEN <<>>
    ELSE IF /\ MatchesAt(s, i, original_)
            /\ \E j \in (i + 9)..Len(s) : ImprovedFrom(s, j)
    THEN LET j == CHOOSE j \in (i + 9)..Len(s) :
                     /\ ImprovedFrom(s, j)
                     /\ \A h \in (i + 9)..(j - 1) : ~ImprovedFrom(s, h)
             k == SkipSpace(s, j)
         IN  SubSeq(s, i, j - 1) \o <<"\n", "\n", "\n">> \o SubSeq(s, j, k + 8)
             \o SeparateImproved(s, k + 9)
    ELSE <<s[i]>> \o SeparateImproved(s, i + 1)

\* str.replace(c + c, "")
RECURSIVE RemovePairs(_, _)
RemovePairs(s, c) ==
    IF s = <<>> THEN <<>>
    ELSE IF Len(s) >= 2 /\ s[1] = c /\ s[2] = c THEN RemovePairs(SubSeq(s, 3, Len(s)), c)
    ELSE <<Head(s)>> \o RemovePairs(Tail(s), c)

\* str.split("\n")
RECURSIVE SplitLines(_, _)
SplitLines(s, line) ==
    IF s = <<>> THEN <<line>>
    ELSE IF Head(s) = "\n" THEN <<line>> \o SplitLines(Tail(s), <<>>)
    ELSE SplitLines(Tail(s), Append(line, Head(s)))

\* [line.strip() for line in lines if line.strip()]
RECURSIVE StrippedLines(_)
StrippedLines(lines) ==
    IF lines = <<>> THEN <<>>
    ELSE (IF Strip(Head(lines)) # <<>> THEN <<Strip(Head(lines))>> ELSE <<>>)
         \o StrippedLines(Tail(lines))

postprocess_response(response) ==
    LET separated == SeparateImproved(response, 1)
        plain == RemovePairs(RemovePairs(separated, "*"), "_")
        joined == Join(<<"\n">>, StrippedLines(SplitLines(plain, <<>>)))
    IN  SubSeq(joined, 1, Min(OutputLimit, Len(joined)))

(***************************************************************************)
(* call_ollama_stream: a generator, advanced by the consumer's next()      *)
(***************************************************************************)
\* one line of response.iter_lines()
ContentLine(text) == [kind |-> "content", text |-> text]
EmptyLine == [kind |-> "empty", text |-> <<>>]
NoContentLine == [kind |-> "nocontent", text |-> <<>>]
MalformedLine == [kind |-> "malformed", text |-> <<>>]

Lines == {ContentLine(t) : t \in Fragments} \cup {EmptyLine, NoContentLine, MalformedLine}

\* what running the generator up to its next suspension comes to
Yield(val, pos) == [ev |-> "yield", val |-> val, pos |-> pos, exc |-> "none"]
Return == [ev |-> "return", val |-> <<>>, pos |-> 0, exc |-> "none"]
Except(exc) == [ev |-> "except", val |-> <<>>, pos |-> 0, exc |-> exc]
RaiseOut(exc) == [ev |-> "raise", val |-> <<>>, pos |-> 0, exc |-> exc]
YieldInHandler(val) == [ev |-> "yield_in_handler", val |-> val, pos |-> 0, exc |-> "none"]

\* f"Error: {str(e)}"
ErrorText(exc) == <<"E", "r", "r", "o", "r", ":", " ">> \o <<exc>>

\* variant: a line that cannot be parsed is skipped
RECURSIVE stream_lines_skip(_, _)
stream_lines_skip(b, pos) ==
    IF pos > Len(b.lines)
    THEN IF b.ending = "drop" THEN Except("ConnectionError") ELSE Return
    ELSE LET line == b.lines[pos]
         IN  CASE line.kind = "empty" -> stream_lines_skip(b, pos + 1)
               [] line.kind = "malformed" -> stream_lines_skip(b, pos + 1)
               [] line.kind = "nocontent" -> stream_lines_skip(b, pos + 1)
               [] line.kind = "content" -> Yield(line.text, pos + 1)

\* the for loop over response.iter_lines(), from line pos on
RECURSIVE stream_lines(_, _)
stream_lines(b, pos) ==
    IF pos > Len(b.lines)
    THEN IF b.ending = "drop" THEN Except("ConnectionError") ELSE Return
    ELSE LET line == b.lines[pos]
         IN  CASE line.kind = "empty" -> stream_lines(b, pos + 1)
               [] line.kind = "malformed" -> Except("JSONDecodeError")
               [] line.kind = "nocontent" -> stream_lines(b, pos + 1)
               [] line.kind = "content" -> Yield(line.text, pos + 1)

\* the try block, entered at the first next() and re-entered at later ones
stream_try(b, gen) ==
    IF gen.state = "created"
    THEN CASE b.connect = "refused" -> Except("ConnectionError")
           [] b.connect = "http_error" -> Except("HTTPError")
           [] OTHER -> stream_lines(b, 1)
    ELSE stream_lines(b, gen.pos)

\* the except clause: the operand r1 of the yielded expression is a name
\* that is not defined, so evaluating it raises NameError before the yield
stream_except(exc) == RaiseOut("NameError")

\* one next() on the generator
call_ollama_stream_next(b, gen) ==
    IF gen.state = "in_handler" THEN Return
    ELSE LET e == stream_try(b, gen)
         IN  IF e.ev = "except" THEN stream_except(e.exc) ELSE e

NewGenerator == [state |-> "created", pos |-> 1]

(***************************************************************************)
(* functools.lru_cache                                                     *)
(***************************************************************************)
CacheFind(cache, key) ==
    IF \E i \in 1..Len(cache) : cache[i].key = key
    THEN CHOOSE i \in 1..Len(cache) : cache[i].key = key
    ELSE 0

\* variant: a hit leaves the order of the entries as it is
lru_hit_nomove(cache, i) == cache

\* a hit makes the entry the most recently used one
lru_hit(cache, i) ==
    SubSeq(cache, 1, i - 1) \o SubSeq(cache, i + 1, Len(cache)) \o <<cache[i]>>

\* variant: a computed value is stored even if the key was added meanwhile
lru_store_always(cache, key, val) ==
    IF Len(cache) >= cache_size THEN Append(Tail(cache), [key |-> key, val |-> val])
    ELSE Append(cache, [key |-> key, val |-> val])

\* a computed value is stored unless the key was added while the function
\* ran; a full cache drops its least recently used entry
lru_store(cache, key, val) ==
    IF CacheFind(cache, key) > 0 THEN cache
    ELSE IF Len(cache) >= cache_size THEN Append(Tail(cache), [key |-> key, val |-> val])
    ELSE Append(cache, [key |-> key, val |-> val])

\* variant: the function is called without its cache
lru_call_uncached(cache, key, computed) ==
    [res |-> computed, cache |-> cache, hit |-> FALSE]

\* the decorated function called with key; computed is what the wrapped
\* function comes to if it is called.  An exception is not stored.
lru_call(cache, key, computed) ==
    LET i == CacheFind(cache, key)
    IN  IF i > 0
        THEN [res |-> Ok(cache[i].val), cache |-> lru_hit(cache, i), hit |-> TRUE]
        ELSE IF computed.exc = "none"
        THEN [res |-> computed, cache |-> lru_store(cache, key, computed.val), hit |-> FALSE]
        ELSE [res |-> computed, cache |-> cache, hit |-> FALSE]

\* calls of the vector index (get_collection, query) one retrieval makes
IndexCalls(out) == IF out.kind = "connect_fail" \/ out.kind = "embed_fail" THEN 1 ELSE 2

\* calls of the embedding backend (embed_query) one retrieval makes
EmbedCalls(out) == IF out.kind = "connect_fail" THEN 0 ELSE 1

(***************************************************************************)
(* detect_language_safe, should_use_full_model, call_ollama                *)
(***************************************************************************)
detect_language_safe(det, fallback) == IF det.exc = "none" THEN det.val ELSE fallback

\* len(text.split())
WordCount(text) ==
    Cardinality({i \in 1..Len(text) :
                    ~IsSpace(text[i]) /\ (i = 1 \/ IsSpace(text[i - 1]))})

\* variant: the test for the symbols is left out
should_use_full_model_words(text) == WordCount(text) > 1

should_use_full_model(text) ==
    WordCount(text) > 1 \/ \E i \in 1..Len(text) : text[i] \in {"@", "#", "$"}

\* gen is what the backend answers; a failure is logged and raised again
call_ollama(gen) == gen

LightModel == "llama4:latest"
BaseModel == "mistral-small3.1:24b"
Absent == "<absent>"

\* the model selection of main; kwargs.get('model', base_model)
select_model(clean_prompt, kwargs) ==
    IF ~should_use_full_model(clean_prompt) THEN LightModel
    ELSE IF kwargs.model # Absent THEN kwargs.model ELSE BaseModel

\* temperature=0.3 in hundredths; -1 stands for an absent keyword
DefaultTemperature == 30
AbsentTemperature == -1

(***************************************************************************)
(* main                                                                    *)
(***************************************************************************)
NoRetrieval == [called |-> FALSE, query |-> <<>>, ctx |-> <<>>, hit |-> FALSE, kind |-> "none"]
NoGeneration ==
    [called |-> FALSE, key |-> <<>>, res |-> NotCalled, hit |-> FALSE]

\* variant: more than one backend call when the first one fails
GenCalls_retry(g) == IF g.hit THEN 0 ELSE IF g.res.exc # "none" THEN 2 ELSE 1

\* backend calls made by one call of get_model_response with outcome g
GenCalls(g) == IF g.hit THEN 0 ELSE 1

\* variant: a streaming request goes through the response cache as well
respond_cached(use_streaming, key, gen, st1) ==
    LET g == lru_call(st1.resp_cache, key, call_ollama(gen))
        st2 == [st1 EXCEPT !.resp_cache = g.cache, !.n_gen = @ + GenCalls(g)]
        gene == [called |-> TRUE, key |-> key, res |-> g.res, hit |-> g.hit]
    IN  IF use_streaming
        THEN [kind |-> "stream", exc |-> "none", val |-> <<>>, st |-> st2,
              gen |-> NoGeneration]
        ELSE [kind |-> "text", exc |-> g.res.exc,
              val |-> IF g.res.exc = "none" THEN g.res.val ELSE <<>>,
              st |-> st2, gen |-> gene]

\* the end of main's try block: a streaming request returns a new generator
\* of call_ollama_stream, a blocking one what get_model_response returns
respond(use_streaming, key, gen, st1) ==
    LET g == lru_call(st1.resp_cache, key, call_ollama(gen))
        st2 == [st1 EXCEPT !.resp_cache = g.cache, !.n_gen = @ + GenCalls(g)]
        gene == [called |-> TRUE, key |-> key, res |-> g.res, hit |-> g.hit]
    IN  IF use_streaming
        THEN [kind |-> "stream", exc |-> "none", val |-> <<>>, st |-> st1,
              gen |-> NoGeneration]
        ELSE [kind |-> "text", exc |-> g.res.exc,
              val |-> IF g.res.exc = "none" THEN g.res.val ELSE <<>>,
              st |-> st2, gen |-> gene]

\* the try block of main.  st holds the caches and the call counters, env
\* what the language detector and the backends answer if they are asked.
main_try(user_prompt, use_streaming, kwargs, env, st) ==
    LET v == validate_input(user_prompt)
        clean_prompt == v.val
        lang == detect_language_safe(env.det, en)
        c == lru_call(st.ctx_cache, clean_prompt, get_relevant_context_body(env.out))
        context == c.res.val
        retr == [called |-> TRUE, query |-> clean_prompt, ctx |-> context,
                 hit |-> c.hit, kind |-> IF c.hit THEN "cached" ELSE env.out.kind]
        st1 == [st EXCEPT !.ctx_cache = c.cache,
                          !.n_index = IF c.hit THEN @ ELSE @ + IndexCalls(env.out),
                          !.n_embed = IF c.hit THEN @ ELSE @ + EmbedCalls(env.out)]
        model == select_model(clean_prompt, kwargs)
        m == create_efficient_prompt(lang, context, clean_prompt, env.det2)
        temperature == IF kwargs.temperature # AbsentTemperature
                       THEN kwargs.temperature ELSE DefaultTemperature
        key == <<m.val, model, temperature>>
        d == respond(use_streaming, key, env.gen, st1)
        base == [exc |-> "none", caught |-> "none", kind |-> "text", val |-> <<>>,
                 stage |-> "validate",
                 st |-> st, retr |-> NoRetrieval, gen |-> NoGeneration,
                 messages |-> <<>>, model |-> Absent]
    IN  IF v.exc # "none" THEN [base EXCEPT !.exc = v.exc]
        ELSE IF c.res.exc # "none"
        THEN [base EXCEPT !.exc = c.res.exc, !.stage = "retrieve", !.st = st1,
                          !.retr = retr]
        ELSE IF m.exc # "none"
        THEN [base EXCEPT !.exc = m.exc, !.stage = "compose", !.st = st1,
                          !.retr = retr, !.model = model]
        ELSE [base EXCEPT !.exc = d.exc, !.kind = d.kind, !.val = d.val,
                          !.stage = "generate", !.st = d.st, !.retr = retr,
                          !.gen = d.gen, !.messages = m.val, !.model = model]

\* f"Validation error: {str(e)}"
ValidationErrorText(exc) ==
    <<"V", "a", "l", "i", "d", "a", "t", "i", "o", "n", " ", "e", "r", "r", "o", "r", ":", " ">>
    \o <<exc>>

\* variant: only pydantic's ValidationError is caught
main_narrow(user_prompt, use_streaming, kwargs, env, st) ==
    LET r == main_try(user_prompt, use_streaming, kwargs, env, st)
    IN  IF r.exc = "ValidationError"
        THEN [r EXCEPT !.exc = "none", !.caught = r.exc, !.kind = "error",
                       !.val = ValidationErrorText(r.exc)]
        ELSE r

\* main: the try block and its two except clauses
main(user_prompt, use_streaming, kwargs, env, st) ==
    LET r == main_try(user_prompt, use_streaming, kwargs, env, st)
    IN  IF r.exc = "none" THEN r
        ELSE IF r.exc = "ValidationError"
        THEN [r EXCEPT !.exc = "none", !.caught = r.exc, !.kind = "error",
                       !.val = ValidationErrorText(r.exc)]
        ELSE [r EXCEPT !.exc = "none", !.caught = r.exc, !.kind = "error",
                       !.val = ErrorText(r.exc)]

RECURSIVE SeqsUpTo(_, _)
SeqsUpTo(S, n) ==
    IF n = 0 THEN {<<>>}
    ELSE LET shorter == SeqsUpTo(S, n - 1)
         IN  shorter \cup {Append(s, c) : s \in {t \in shorter : Len(t) = n - 1}, c \in S}

RawTexts == SeqsUpTo(TextChars, MaxTextLen)

\* parallel lists of passages and distances, as the index returns them
RECURSIVE IndexResults(_)
IndexResults(n) ==
    IF n = 0 THEN {RetrievalOk(<<>>, <<>>)}
    ELSE LET shorter == IndexResults(n - 1)
         IN  shorter \cup
             {RetrievalOk(Append(r.documents, doc), Append(r.distances, dist)) :
                 r \in {t \in shorter : Len(t.documents) = n - 1},
                 doc \in Passages, dist \in Distances}

LangValues == SeqsUpTo(LangChars, MaxLangLen)

v_vars == <<v_text, v_res>>
f_vars == <<f_out, f_ctx>>
p_vars == <<p_lang, p_context, p_text, p_det, p_res>>
s_vars == <<s_backend, s_gen, s_delivered, s_raised>>
m_vars == <<ctx_cache, resp_cache, n_index, n_embed, n_gen, m_last, r_last, g_last>>
q_vars == <<q_text, q_kwargs, q_model>>
l_vars == <<l_kind, l_cache, l_recent, l_last>>
t_vars == <<t_workers, t_later>>
x_vars == <<q_vars, l_vars, t_vars>>
vars == <<v_vars, f_vars, p_vars, s_vars, m_vars, x_vars>>

\* what the backend may do on a streaming connection
Backends ==
    {[connect |-> "ok", lines |-> ls, ending |-> e] :
        ls \in SeqsUpTo(Lines, MaxLines), e \in {"eof", "drop"}}
    \cup {[connect |-> c, lines |-> <<>>, ending |-> "eof"] : c \in {"refused", "http_error"}}

NoGenerator == [state |-> "none", pos |-> 1]

NoCall ==
    [seq |-> 0, text |-> <<>>, streaming |-> FALSE, exc |-> "none",
     caught |-> "none", kind |-> "none",
     val |-> <<>>, stage |-> "none", messages |-> <<>>, model |-> Absent,
     retr |-> NoRetrieval, gen |-> NoGeneration]

m_idle ==
    /\ ctx_cache = <<>>
    /\ resp_cache = <<>>
    /\ n_index = 0
    /\ n_embed = 0
    /\ n_gen = 0
    /\ m_last = NoCall
    /\ r_last = [seq |-> 0, call |-> NoRetrieval]
    /\ g_last = [seq |-> 0, call |-> NoGeneration]

s_idle ==
    /\ s_backend = [connect |-> "ok", lines |-> <<>>, ending |-> "eof"]
    /\ s_gen = NoGenerator
    /\ s_delivered = <<>>
    /\ s_raised = "none"

NotSelected == "<not selected>"

NoCacheCall ==
    [key |-> <<>>, res |-> NotCalled, hit |-> FALSE, failed |-> FALSE,
     calls |-> 0, recovered |-> FALSE]

WorkerStart == [pc |-> "start", computed |-> NotCalled, res |-> NotCalled]

q_idle ==
    /\ q_text = <<>>
    /\ q_kwargs = [model |-> Absent, temperature |-> AbsentTemperature]
    /\ q_model = NotSelected

l_idle ==
    /\ l_kind = "context"
    /\ l_cache = <<>>
    /\ l_recent = <<>>
    /\ l_last = NoCacheCall

t_idle ==
    /\ t_workers = <<WorkerStart, WorkerStart>>
    /\ t_later = NotCalled

x_idle == q_idle /\ l_idle /\ t_idle

v_idle == v_text = <<>> /\ v_res = NotCalled
f_idle == f_out = RetrievalOk(<<>>, <<>>) /\ f_ctx = NotCalled
p_idle ==
    /\ p_lang = <<>>
    /\ p_context = <<>>
    /\ p_text = <<>>
    /\ p_det = NotCalled
    /\ p_res = NotCalled

(***************************************************************************)
(* validate_input applied to every raw text                                *)
(***************************************************************************)
InitValidate ==
    /\ v_text \in RawTexts
    /\ v_res = NotCalled
    /\ f_idle /\ p_idle /\ s_idle /\ m_idle /\ x_idle

Validate ==
    /\ v_res = NotCalled
    /\ v_res' = validate_input(v_text)
    /\ UNCHANGED <<v_text, f_vars, p_vars, s_vars, m_vars, x_vars>>

NextValidate == Validate

SpecValidate == InitValidate /\ [][NextValidate]_vars

(***************************************************************************)
(* The retrieval body applied to every answer of the backends              *)
(***************************************************************************)
InitFilter ==
    /\ f_out \in IndexResults(MaxDocs) \cup RetrievalFailures
    /\ f_ctx = NotCalled
    /\ v_idle /\ p_idle /\ s_idle /\ m_idle /\ x_idle

Retrieve ==
    /\ f_ctx = NotCalled
    /\ f_ctx' = get_relevant_context_body(f_out)
    /\ UNCHANGED <<f_out, v_vars, p_vars, s_vars, m_vars, x_vars>>

NextFilter == Retrieve

SpecFilter == InitFilter /\ [][NextFilter]_vars

(***************************************************************************)
(* create_efficient_prompt applied to every language value                 *)
(***************************************************************************)
InitPrompt ==
    /\ p_lang \in LangValues
    /\ p_context \in {<<>>} \cup Passages
    /\ p_text = <<"h", "e", "l", "l", "o">>
    /\ p_det = NotCalled
    /\ p_res = NotCalled
    /\ v_idle /\ f_idle /\ s_idle /\ m_idle /\ x_idle

Compose ==
    /\ p_res = NotCalled
    /\ \E det \in DetectOutcomes :
          /\ p_det' = (IF Len(p_lang) > 3 THEN det ELSE NotCalled)
          /\ p_res' = create_efficient_prompt(p_lang, p_context, p_text, det)
    /\ UNCHANGED <<p_lang, p_context, p_text, v_vars, f_vars, s_vars, m_vars, x_vars>>

NextPrompt == Compose

SpecPrompt == InitPrompt /\ [][NextPrompt]_vars

(***************************************************************************)
(* One streaming response consumed to its end                              *)
(***************************************************************************)
InitStream ==
    /\ s_backend \in Backends
    /\ s_gen = NewGenerator
    /\ s_delivered = <<>>
    /\ s_raised = "none"
    /\ v_idle /\ f_idle /\ p_idle /\ m_idle /\ x_idle

\* the consumer calls next() on the generator; the first next() runs the
\* function from its start and posts the request to the backend
StreamNext ==
    /\ s_gen.state \in {"created", "suspended", "in_handler"}
    /\ n_gen' = (IF s_gen.state = "created" THEN n_gen + 1 ELSE n_gen)
    /\ LET e == call_ollama_stream_next(s_backend, s_gen)
       IN  CASE e.ev = "yield" ->
                  /\ s_gen' = [state |-> "suspended", pos |-> e.pos]
                  /\ s_delivered' = Append(s_delivered, e.val)
                  /\ s_raised' = s_raised
             [] e.ev = "yield_in_handler" ->
                  /\ s_gen' = [state |-> "in_handler", pos |-> s_gen.pos]
                  /\ s_delivered' = Append(s_delivered, e.val)
                  /\ s_raised' = s_raised
             [] e.ev = "return" ->
                  /\ s_gen' = [state |-> "done", pos |-> s_gen.pos]
                  /\ s_delivered' = s_delivered
                  /\ s_raised' = s_raised
             [] e.ev = "raise" ->
                  /\ s_gen' = [state |-> "raised", pos |-> s_gen.pos]
                  /\ s_delivered' = s_delivered
                  /\ s_raised' = e.exc
    /\ UNCHANGED <<s_backend, v_vars, f_vars, p_vars, x_vars>>
    /\ UNCHANGED <<ctx_cache, resp_cache, n_index, n_embed, m_last, r_last, g_last>>

NextStream == StreamNext

SpecStream == InitStream /\ [][NextStream]_vars

(***************************************************************************)
(* The pipeline: requests handled one after the other by main, and the     *)
(* latest streaming response consumed by its caller                        *)
(***************************************************************************)
hello == <<"h", "e", "l", "l", "o">>

\* too short, one word, two words with padding and an escaped character,
\* and longer than the configured maximum
PipelineTexts ==
    {<<"a", "b">>, hello, <<" ", "f", "i", "x", " ", "&">>,
     [i \in 1..(max_input_length + 1) |-> "a"]}

Kwargs ==
    {[model |-> Absent, temperature |-> AbsentTemperature],
     [model |-> "custom-model", temperature |-> 70]}

zh_cn == <<"z", "h", "-", "c", "n">>

\* what detect(clean_prompt) may answer in main: a short code, a code of
\* more than 3 characters, or a failure (the fallback is "en")
MainDetectOutcomes == {Ok(de), Ok(zh_cn), Raise("LangDetectException")}

\* what detect(lang) may answer when the composer detects again
RedetectOutcomes == {Ok(en), Raise("LangDetectException")}

\* one passage below the threshold, or a failure of either backend
PipelineRetrievals ==
    {RetrievalOk(<<<<"p">>>>, <<min_context_distance - 1>>)} \cup RetrievalFailures

\* what the generation backend answers to a blocking request
GenOutcomes ==
    {Ok(<<"r", "1">>), Ok(<<"*", "*", "r">>), Raise("RequestException")}

PipelineBackends ==
    {[connect |-> "refused", lines |-> <<>>, ending |-> "eof"],
     [connect |-> "ok", lines |-> <<ContentLine(<<"x">>)>>, ending |-> "eof"]}

Init ==
    /\ v_idle /\ f_idle /\ p_idle /\ s_idle /\ m_idle /\ x_idle

\* main is called with a request; the environment's answers are drawn only
\* where main asks for them
CallMain ==
    /\ m_last.seq < MaxCalls
    /\ \E text \in PipelineTexts, use_streaming \in BOOLEAN, kwargs \in Kwargs :
         LET v == validate_input(text)
             valid == v.exc = "none"
             miss == valid /\ CacheFind(ctx_cache, v.val) = 0
         IN  \E det \in (IF valid THEN MainDetectOutcomes ELSE {Ok(en)}),
                out \in (IF miss THEN PipelineRetrievals ELSE {RetrievalOk(<<>>, <<>>)}),
                gen \in (IF valid /\ ~use_streaming THEN GenOutcomes
                         ELSE {Raise("RequestException")}),
                b \in (IF valid /\ use_streaming THEN PipelineBackends
                       ELSE {s_backend}) :
               \E det2 \in (IF valid /\ Len(detect_language_safe(det, en)) > 3
                             THEN RedetectOutcomes ELSE {Ok(en)}) :
                  \E r \in {main(text, use_streaming, kwargs,
                                [det |-> det, det2 |-> det2, out |-> out, gen |-> gen],
                                [ctx_cache |-> ctx_cache, resp_cache |-> resp_cache,
                                 n_index |-> n_index, n_embed |-> n_embed,
                                 n_gen |-> n_gen])} :
                  LET seq == m_last.seq + 1
                  IN  /\ ctx_cache' = r.st.ctx_cache
                      /\ resp_cache' = r.st.resp_cache
                      /\ n_index' = r.st.n_index
                      /\ n_embed' = r.st.n_embed
                      /\ n_gen' = r.st.n_gen
                      /\ m_last' = [seq |-> seq, text |-> text,
                                    streaming |-> use_streaming, exc |-> r.exc,
                                    caught |-> r.caught,
                                    kind |-> r.kind, val |-> r.val, stage |-> r.stage,
                                    messages |-> r.messages, model |-> r.model,
                                    retr |-> r.retr, gen |-> r.gen]
                      /\ r_last' = (IF r.retr.called
                                    THEN [seq |-> seq, call |-> r.retr] ELSE r_last)
                      /\ g_last' = (IF r.gen.called
                                    THEN [seq |-> seq, call |-> r.gen] ELSE g_last)
                      /\ IF r.exc = "none" /\ r.kind = "stream"
                         THEN /\ s_backend' = b
                              /\ s_gen' = NewGenerator
                              /\ s_delivered' = <<>>
                              /\ s_raised' = "none"
                         ELSE UNCHANGED s_vars
    /\ UNCHANGED <<v_vars, f_vars, p_vars, x_vars>>

Next == CallMain \/ StreamNext

Spec == Init /\ [][Next]_vars

(***************************************************************************)
(* The model selection of main applied to every validated text             *)
(***************************************************************************)
\* characters the texts are drawn from: blank, plain, one of the symbols,
\* and a quote, whose escaped form &#x27; holds a symbol
SelectChars == {" ", "a", "@", "'"}

InitSelect ==
    /\ q_text \in SeqsUpTo(SelectChars, max_input_length)
    /\ q_kwargs \in Kwargs
    /\ q_model = NotSelected
    /\ v_idle /\ f_idle /\ p_idle /\ s_idle /\ m_idle /\ l_idle /\ t_idle

\* main up to its model selection; nothing is selected for a rejected text
SelectModel ==
    /\ q_model = NotSelected
    /\ validate_input(q_text).exc = "none"
    /\ q_model' = select_model(validate_input(q_text).val, q_kwargs)
    /\ UNCHANGED <<q_text, q_kwargs, v_vars, f_vars, p_vars, s_vars, m_vars, l_vars, t_vars>>

NextSelect == SelectModel

SpecSelect == InitSelect /\ [][NextSelect]_vars

(***************************************************************************)
(* The two cached functions, get_relevant_context and get_model_response,  *)
(* called directly                                                         *)
(***************************************************************************)
CacheKinds == {"context", "response"}

\* the n-th query: a valid text of one word
Query(n) == [i \in 1..(MinInputLength + n) |-> "a"]

\* the arguments the cached function is called with for the n-th query
CacheKey(kind, n) ==
    IF kind = "context" THEN Query(n)
    ELSE <<create_efficient_prompt(en, <<>>, Query(n), Ok(en)).val, LightModel,
           DefaultTemperature>>

\* two more queries than the cache has room for
KeyNumbers == 0..(cache_size + 1)

\* what the backends answer to one call of the wrapped function
BackendAnswers(kind) == IF kind = "context" THEN PipelineRetrievals ELSE GenOutcomes

BackendFailed(kind, answer) ==
    IF kind = "context" THEN answer.kind # "ok" ELSE answer.exc # "none"

BackendCalls(kind, answer) ==
    IF kind = "context" THEN IndexCalls(answer) + EmbedCalls(answer) ELSE 1

\* the wrapped function run against the backends' answer
wrapped(kind, answer) ==
    IF kind = "context" THEN get_relevant_context_body(answer) ELSE call_ollama(answer)

RECURSIVE Without(_, _)
Without(keys, key) ==
    IF keys = <<>> THEN <<>>
    ELSE (IF Head(keys) = key THEN <<>> ELSE <<Head(keys)>>) \o Without(Tail(keys), key)

InitLru ==
    /\ l_kind \in CacheKinds
    /\ l_cache = <<>>
    /\ l_recent = <<>>
    /\ l_last = NoCacheCall
    /\ v_idle /\ f_idle /\ p_idle /\ s_idle /\ m_idle /\ q_idle /\ t_idle

\* one call of the cached function.  l_recent lists the keys by their last
\* use (a hit or an insertion), the latest last.
CachedCall ==
    /\ \E n \in KeyNumbers, answer \in BackendAnswers(l_kind) :
         LET key == CacheKey(l_kind, n)
         IN  \E r \in {lru_call(l_cache, key, wrapped(l_kind, answer))} :
               /\ l_cache' = r.cache
               /\ l_recent' = (IF r.res.exc = "none"
                               THEN Append(Without(l_recent, key), key) ELSE l_recent)
               /\ l_last' = [key |-> key, res |-> r.res, hit |-> r.hit,
                             failed |-> ~r.hit /\ BackendFailed(l_kind, answer),
                             calls |-> IF r.hit THEN 0 ELSE BackendCalls(l_kind, answer),
                             recovered |-> ~BackendFailed(l_kind, answer)]
    /\ UNCHANGED <<l_kind, v_vars, f_vars, p_vars, s_vars, m_vars, q_vars, t_vars>>

NextLru == CachedCall

SpecLru == InitLru /\ [][NextLru]_vars

(***************************************************************************)
(* Two threads call one cached function with the same key that is not in   *)
(* the cache.  The wrapper looks the key up, calls the function without    *)
(* holding the cache, and stores the result afterwards.                    *)
(***************************************************************************)
Workers == 1..2

RaceKey == CacheKey(l_kind, 0)

\* entries for other keys the cache may hold when the two calls start
OtherEntries(kind, n) == [i \in 1..n |-> [key |-> CacheKey(kind, i), val |-> <<"v">>]]

InitRace ==
    /\ l_kind \in CacheKinds
    /\ l_cache \in {OtherEntries(l_kind, n) : n \in 0..cache_size}
    /\ l_recent = <<>>
    /\ l_last = NoCacheCall
    /\ t_workers = [w \in Workers |-> WorkerStart]
    /\ t_later = NotCalled
    /\ v_idle /\ f_idle /\ p_idle /\ s_idle /\ m_idle /\ q_idle

\* the wrapper looks the key up: a hit returns the stored value
Lookup(w) ==
    /\ t_workers[w].pc = "start"
    /\ LET i == CacheFind(l_cache, RaceKey)
       IN  IF i > 0
           THEN /\ l_cache' = lru_hit(l_cache, i)
                /\ t_workers' = [t_workers EXCEPT ![w].pc = "done",
                                                  ![w].res = Ok(l_cache[i].val)]
           ELSE /\ l_cache' = l_cache
                /\ t_workers' = [t_workers EXCEPT ![w].pc = "calling"]
    /\ UNCHANGED <<l_kind, l_recent, l_last, t_later>>
    /\ UNCHANGED <<v_vars, f_vars, p_vars, s_vars, m_vars, q_vars>>

\* after a miss the wrapped function runs against the backends
Compute(w) ==
    /\ t_workers[w].pc = "calling"
    /\ \E answer \in BackendAnswers(l_kind) :
         t_workers' = [t_workers EXCEPT ![w].pc = "computed",
                                        ![w].computed = wrapped(l_kind, answer)]
    /\ UNCHANGED <<l_vars, t_later>>
    /\ UNCHANGED <<v_vars, f_vars, p_vars, s_vars, m_vars, q_vars>>

\* the wrapper stores the value and returns it; an exception is passed on
Store(w) ==
    /\ t_workers[w].pc = "computed"
    /\ LET computed == t_workers[w].computed
       IN  /\ l_cache' = (IF computed.exc = "none"
                          THEN lru_store(l_cache, RaceKey, computed.val) ELSE l_cache)
           /\ t_workers' = [t_workers EXCEPT ![w].pc = "done", ![w].res = computed]
    /\ UNCHANGED <<l_kind, l_recent, l_last, t_later>>
    /\ UNCHANGED <<v_vars, f_vars, p_vars, s_vars, m_vars, q_vars>>

\* a later call with the same key, after both threads have returned
Later ==
    /\ \A w \in Workers : t_workers[w].pc = "done"
    /\ t_later = NotCalled
    /\ \E answer \in BackendAnswers(l_kind) :
         \E r \in {lru_call(l_cache, RaceKey, wrapped(l_kind, answer))} :
            /\ l_cache' = r.cache
            /\ t_later' = r.res
            /\ l_last' = [key |-> RaceKey, res |-> r.res, hit |-> r.hit,
                          failed |-> ~r.hit /\ BackendFailed(l_kind, answer),
                          calls |-> IF r.hit THEN 0 ELSE BackendCalls(l_kind, answer),
                          recovered |-> ~BackendFailed(l_kind, answer)]
    /\ UNCHANGED <<l_kind, l_recent, t_workers>>
    /\ UNCHANGED <<v_vars, f_vars, p_vars, s_vars, m_vars, q_vars>>

NextRace == (\E w \in Workers : Lookup(w) \/ Compute(w) \/ Store(w)) \/ Later

SpecRace == InitRace /\ [][NextRace]_vars

(***************************************************************************)
(* Claims about validate_input                                             *)
(***************************************************************************)
\* positions of the characters of s that are not white space
InkPositions(s) == {i \in 1..Len(s) : ~IsSpace(s[i])}

\* length of s without its leading and trailing white space
TrimmedLen(s) ==
    IF InkPositions(s) = {} THEN 0
    ELSE LET lo == CHOOSE i \in InkPositions(s) : \A j \in InkPositions(s) : i <= j
             hi == CHOOSE i \in InkPositions(s) : \A j \in InkPositions(s) : i >= j
         IN  hi - lo + 1

\* s without its leading and trailing white space
Trimmed(s) ==
    IF InkPositions(s) = {} THEN <<>>
    ELSE LET lo == CHOOSE i \in InkPositions(s) : \A j \in InkPositions(s) : i <= j
             hi == CHOOSE i \in InkPositions(s) : \A j \in InkPositions(s) : i >= j
         IN  SubSeq(s, lo, hi)

\* C7: a text whose trimmed length is below 5 is rejected with a validation
\* error; a text whose trimmed length is at least 5 and whose raw length is at
\* most the configured maximum is accepted, and the value returned is the
\* HTML-escaped form of the trimmed text.
C7_ValidateContract ==
    v_res # NotCalled =>
        /\ TrimmedLen(v_text) < 5 => v_res.exc = "ValueError"
        /\ (TrimmedLen(v_text) >= 5 /\ Len(v_text) <= max_input_length) =>
               v_res = Ok(Escape(Trimmed(v_text)))

\* a text of trimmed length exactly 5, padded and with an escaped character,
\* has been accepted
C7_Witness ==
    /\ v_res.exc = "none"
    /\ TrimmedLen(v_text) = 5
    /\ Len(v_text) > 5
    /\ v_res.val # Trimmed(v_text)

\* C8 as stated: every string returned by a successful validate_input has
\* length at least 5 and at most the configured maximum input length.
C8_Original ==
    v_res.exc = "none" =>
        /\ Len(v_res.val) >= 5
        /\ Len(v_res.val) <= max_input_length

\* C8 amended: every string returned by a successful validate_input has
\* length at least 5; the configured maximum bounds the raw input, and the
\* returned (escaped) string is at most 6 times the configured maximum.
C8_ValidatedLength ==
    v_res.exc = "none" =>
        /\ Len(v_res.val) >= 5
        /\ Len(v_text) <= max_input_length
        /\ Len(v_res.val) <= 6 * max_input_length

\* an accepted text whose escaped form is longer than the configured maximum
C8_Witness ==
    /\ v_res.exc = "none"
    /\ Len(v_res.val) > max_input_length

(***************************************************************************)
(* Claims about call_ollama_stream                                         *)
(***************************************************************************)
StreamFinished == s_gen.state \in {"done", "raised"}

IsContentLine(line) == line.kind = "content"

\* the content fields of the lines that carry one, in the order sent
ContentTexts(lines) ==
    LET carrying == SelectSeq(lines, IsContentLine)
    IN  [i \in 1..Len(carrying) |-> carrying[i].text]

MalformedAt(lines) == {i \in 1..Len(lines) : lines[i].kind = "malformed"}

\* the connection cannot be opened, is answered with an error status, or
\* breaks while the lines are read
ConnectionFails(b) ==
    \/ b.connect # "ok"
    \/ b.ending = "drop" /\ MalformedAt(b.lines) = {}

IsErrorFragment(f) ==
    Len(f) >= 6 /\ SubSeq(f, 1, 6) = <<"E", "r", "r", "o", "r", ":">>

IsNoErrorFragment(f) == ~IsErrorFragment(f)

\* C2: when the connection fails after k fragments were delivered, the
\* stream ends normally and the consumer has received those k fragments
\* followed by exactly one fragment that starts with "Error:".
C2_ErrorFragment ==
    (StreamFinished /\ ConnectionFails(s_backend)) =>
        LET k == Len(ContentTexts(s_backend.lines))
        IN  /\ s_gen.state = "done"
            /\ s_raised = "none"
            /\ Len(s_delivered) = k + 1
            /\ SubSeq(s_delivered, 1, k) = ContentTexts(s_backend.lines)
            /\ IsErrorFragment(s_delivered[k + 1])

\* C3 as stated: a line that cannot be parsed yields no fragment and every
\* line with a content field that arrives after it is still yielded.
C3_Original ==
    StreamFinished =>
        /\ Len(SelectSeq(s_delivered, IsNoErrorFragment))
              <= Len(ContentTexts(s_backend.lines))
        /\ \A i \in MalformedAt(s_backend.lines) :
              \A j \in (i + 1)..Len(s_backend.lines) :
                 IsContentLine(s_backend.lines[j]) =>
                    \E n \in 1..Len(s_delivered) :
                       s_delivered[n] = s_backend.lines[j].text

\* C3 amended: a line that cannot be parsed yields no fragment and ends the
\* stream: the content of the lines before the first such line is yielded
\* in order, and no line after it is yielded.
C3_MalformedEndsStream ==
    (StreamFinished /\ MalformedAt(s_backend.lines) # {}) =>
        LET first == CHOOSE i \in MalformedAt(s_backend.lines) :
                        \A j \in MalformedAt(s_backend.lines) : i <= j
        IN  SelectSeq(s_delivered, IsNoErrorFragment)
              = ContentTexts(SubSeq(s_backend.lines, 1, first - 1))

\* a stream with content before and after a malformed line has ended
C3_Witness ==
    /\ StreamFinished
    /\ \E i \in MalformedAt(s_backend.lines) :
          /\ i > 1 /\ IsContentLine(s_backend.lines[i - 1])
          /\ i < Len(s_backend.lines) /\ IsContentLine(s_backend.lines[i + 1])
    /\ s_delivered # <<>>

(***************************************************************************)
(* Claims about the distance filter of get_relevant_context                *)
(***************************************************************************)
\* positions of the passages whose distance is below the threshold
Qualifying(out) ==
    {i \in 1..Len(out.documents) : out.distances[i] < min_context_distance}

\* the qualifying passages, in the order of the index
QualifyingPassages(out) ==
    [k \in 1..Cardinality(Qualifying(out)) |->
        out.documents[CHOOSE i \in Qualifying(out) :
                         Cardinality({j \in Qualifying(out) : j < i}) = k - 1]]

\* s cut at every blank
RECURSIVE SplitBlank(_, _)
SplitBlank(s, word) ==
    IF s = <<>> THEN <<word>>
    ELSE IF Head(s) = " " THEN <<word>> \o SplitBlank(Tail(s), <<>>)
    ELSE SplitBlank(Tail(s), Append(word, Head(s)))

\* C9: the context returned for an index result is made of exactly the
\* passages whose distance is below the threshold, in the order of the index,
\* separated by single blanks; no passage at or above the threshold is in
\* it, and it is the empty string when no passage qualifies.
C9_DistanceFilter ==
    (f_ctx # NotCalled /\ f_out.kind = "ok") =>
        /\ f_ctx.exc = "none"
        /\ IF Qualifying(f_out) = {} THEN f_ctx.val = <<>>
           ELSE SplitBlank(f_ctx.val, <<>>) = QualifyingPassages(f_out)

\* a result with a passage exactly at the threshold, one above it and two
\* below it has been filtered
C9_Witness ==
    /\ f_ctx # NotCalled
    /\ f_out.kind = "ok"
    /\ \E i \in 1..Len(f_out.distances) : f_out.distances[i] = min_context_distance
    /\ Cardinality(Qualifying(f_out)) >= 2
    /\ f_ctx.val # <<>>

(***************************************************************************)
(* Claims about create_efficient_prompt                                    *)
(***************************************************************************)
HasGermanDirective(messages) ==
    \E i \in 1..Len(messages[1].content) : messages[1].content[i] = GermanSegment

\* C10 as stated: for language "de" the composed prompt has no "German
\* Improved:" directive, and for any other language value it has one.
C10_Original ==
    p_res.exc = "none" =>
        (HasGermanDirective(p_res.val) <=> p_lang # de)

\* C10 amended: for language "de" the composed prompt has no "German
\* Improved:" directive; for another value of at most 3 characters it has
\* one unless the value is "de" in another letter case; for a value longer
\* than 3 characters it has one unless the language re-detected from the
\* value is "de" or "german", and no prompt is composed when that detection
\* fails.
C10_GermanDirective ==
    p_res # NotCalled =>
        /\ p_lang = de => (p_res.exc = "none" /\ ~HasGermanDirective(p_res.val))
        /\ Len(p_lang) <= 3 =>
              /\ p_res.exc = "none"
              /\ HasGermanDirective(p_res.val) <=>
                    p_lang \notin {<<"d", "e">>, <<"D", "e">>, <<"d", "E">>, <<"D", "E">>}
        /\ (Len(p_lang) > 3 /\ p_det.exc = "none") =>
              /\ p_res.exc = "none"
              /\ HasGermanDirective(p_res.val) <=> p_det.val \notin {de, german}
        /\ (Len(p_lang) > 3 /\ p_det.exc # "none") => p_res.exc # "none"

\* a prompt composed for "DE" has no directive
C10_Witness ==
    /\ p_res.exc = "none"
    /\ p_lang = <<"D", "E">>
    /\ ~HasGermanDirective(p_res.val)

(***************************************************************************)
(* Claims about main and the two caches                                    *)
(***************************************************************************)
\* C1: whatever the text and the mode, main returns and does not raise; when
\* validation fails or the blocking generation fails, what it returns is an
\* error text.
C1_MainNeverRaises ==
    m_last.seq > 0 =>
        /\ m_last.exc = "none"
        /\ m_last.kind \in {"text", "error", "stream"}
        /\ (TrimmedLen(m_last.text) < 5 \/ Len(m_last.text) > max_input_length) =>
              (m_last.kind = "error" /\ IsErrorFragment(m_last.val))
        /\ (m_last.gen.called /\ m_last.gen.res.exc # "none") =>
              (m_last.kind = "error" /\ IsErrorFragment(m_last.val))

\* a blocking request whose generation failed has returned an error text
C1_Witness ==
    /\ m_last.seq > 0
    /\ ~m_last.streaming
    /\ m_last.gen.called
    /\ m_last.gen.res.exc # "none"
    /\ m_last.kind = "error"

\* C4: a retrieval for the query of the retrieval before it returns the
\* same context, is a cache hit, and calls neither the embedding backend
\* nor the vector index.
C4_ContextCacheHit ==
    [][(/\ r_last.seq > 0
        /\ r_last'.seq # r_last.seq
        /\ r_last'.call.query = r_last.call.query)
       => (/\ r_last'.call.ctx = r_last.call.ctx
           /\ r_last'.call.hit
           /\ n_index' = n_index
           /\ n_embed' = n_embed)]_vars

\* a second retrieval of a query was served from the cache with a context
\* that is not empty
C4_Witness ==
    /\ r_last.seq > 1
    /\ r_last.call.hit
    /\ r_last.call.ctx # <<>>

\* C5 as stated: a blocking generation for the triple of the generation
\* before it returns the same text as that one did, and the backend is not
\* called again.
C5_Original ==
    [][(/\ g_last.seq > 0
        /\ g_last'.seq # g_last.seq
        /\ g_last'.call.key = g_last.call.key)
       => (/\ g_last.call.res.exc = "none"
           /\ g_last'.call.res = g_last.call.res
           /\ n_gen' = n_gen)]_vars

\* C5 amended: when a blocking generation returned a text, the next one for
\* the same triple returns that text from the cache and the backend is not
\* called; when it raised, nothing was cached and the next one for the same
\* triple calls the backend again.
C5_ResponseCache ==
    [][(/\ g_last.seq > 0
        /\ g_last'.seq # g_last.seq
        /\ g_last'.call.key = g_last.call.key)
       => IF g_last.call.res.exc = "none"
          THEN /\ g_last'.call.res = g_last.call.res
               /\ g_last'.call.hit
               /\ n_gen' = n_gen
          ELSE /\ ~g_last'.call.hit
               /\ n_gen' = n_gen + 1]_vars

\* a second generation for a triple was served from the cache
C5_Witness ==
    /\ g_last.seq > 1
    /\ g_last.call.hit
    /\ m_last.kind = "text"

FailureKinds == {"connect_fail", "embed_fail", "query_fail"}

HasEmptyContext(messages) ==
    \E i \in 1..Len(messages[1].content) :
       messages[1].content[i] = [seg |-> "Context:", arg |-> <<>>]

\* C6: when the index or the embedding backend fails during a request, the
\* retrieval returns the empty string and main goes on: the prompt is
\* composed with an empty context and, unless composing itself fails on
\* detecting the language again, the generation is started.
C6_RetrievalDegrades ==
    (m_last.seq > 0 /\ TrimmedLen(m_last.text) >= 5
                    /\ Len(m_last.text) <= max_input_length) =>
        /\ m_last.retr.called
        /\ m_last.retr.kind \in FailureKinds =>
              /\ m_last.retr.ctx = <<>>
              /\ m_last.stage \in {"compose", "generate"}
              /\ m_last.stage = "compose" => m_last.caught = "LangDetectException"
              /\ m_last.stage = "generate" =>
                    /\ HasEmptyContext(m_last.messages)
                    /\ IF m_last.streaming THEN m_last.kind = "stream"
                       ELSE m_last.gen.called

\* a request whose embedding failed has gone on to a blocking generation
C6_Witness ==
    /\ m_last.retr.called
    /\ m_last.retr.kind = "embed_fail"
    /\ m_last.stage = "generate"
    /\ m_last.gen.called
    /\ m_last.kind = "text"

(***************************************************************************)
(* Claims about the model selection                                        *)
(***************************************************************************)
\* the text main selects the model for
SelectedFor == Escape(Trimmed(q_text))

\* two characters that are not blank with a blank between them
HasSeveralWords(s) ==
    \E i, j, k \in 1..Len(s) :
       i < j /\ j < k /\ ~IsSpace(s[i]) /\ IsSpace(s[j]) /\ ~IsSpace(s[k])

HasSymbol(s) == \E i \in 1..Len(s) : s[i] = "@" \/ s[i] = "#" \/ s[i] = "$"

Requested(kwargs, default) == IF kwargs.model = Absent THEN default ELSE kwargs.model

\* C11 as stated: a validated text of several words or with one of @ # $
\* gets the fixed model whatever model was requested; any other text gets
\* the requested model, or the default one when none was requested.
C11_Original ==
    q_model # NotSelected =>
        IF HasSeveralWords(SelectedFor) \/ HasSymbol(SelectedFor)
        THEN q_model = LightModel
        ELSE q_model = Requested(q_kwargs, BaseModel)

\* C11 amended: a validated text of several words or with one of @ # $ gets
\* the requested model, or "mistral-small3.1:24b" when none was requested;
\* a single word without these symbols gets the fixed model "llama4:latest"
\* whatever model was requested.
C11_ModelSelection ==
    q_model # NotSelected =>
        IF HasSeveralWords(SelectedFor) \/ HasSymbol(SelectedFor)
        THEN q_model = Requested(q_kwargs, "mistral-small3.1:24b")
        ELSE q_model = "llama4:latest"

\* a single word with a symbol has been given the requested model
C11_Witness ==
    /\ q_model = "custom-model"
    /\ ~HasSeveralWords(SelectedFor)
    /\ HasSymbol(SelectedFor)

(***************************************************************************)
(* Claims about what main returns                                          *)
(***************************************************************************)
HasBoldMarkup(s) == \E i \in 1..(Len(s) - 1) : s[i] = "*" /\ s[i + 1] = "*"

\* C12: the text main returns for a successful blocking generation is the
\* post-processed form of the backend's text, at most 5000 characters long
\* and without bold markup; the fragments of a streaming response are the
\* backend's content fields as they are.
C12_Postprocessed ==
    /\ (m_last.seq > 0 /\ m_last.kind = "text") =>
          /\ m_last.val = postprocess_response(m_last.gen.res.val)
          /\ Len(m_last.val) <= 5000
          /\ ~HasBoldMarkup(m_last.val)
    /\ (m_last.seq > 0 /\ m_last.kind = "stream") =>
          \A n \in 1..Len(s_delivered) :
             \E i \in 1..Len(s_backend.lines) :
                /\ IsContentLine(s_backend.lines[i])
                /\ s_delivered[n] = s_backend.lines[i].text

\* C13: for a request that passes validation, a failure of the language
\* detector, in main's first detection or in the composer's detection of a
\* language value longer than 3 characters, never makes main return an
\* error result: the request proceeds to generation.
C13_DetectionRecovered ==
    (m_last.seq > 0 /\ TrimmedLen(m_last.text) >= 5
                    /\ Len(m_last.text) <= max_input_length) =>
        /\ ~(m_last.kind = "error" /\ m_last.caught = "LangDetectException")
        /\ m_last.caught = "LangDetectException" => m_last.stage = "generate"

(***************************************************************************)
(* Claims about single requests: which backends and caches they touch      *)
(***************************************************************************)
\* this step is a call of main
IsRequest == m_last'.seq = m_last.seq + 1

\* this step is the first next() on the generator of a streaming response
FirstNext == s_gen.state = "created" /\ s_gen'.state # "created" /\ ~IsRequest

\* C14: a streaming request neither reads nor writes the response cache:
\* the call of main leaves the response cache, its order included, and the
\* count of generation calls as they were, and the stream it returns
\* contacts the generation backend when it is consumed, whatever the
\* response cache holds.
C14_StreamingNotCached ==
    [][/\ (IsRequest /\ m_last'.streaming) =>
             /\ resp_cache' = resp_cache
             /\ n_gen' = n_gen
             /\ g_last' = g_last
             /\ ~m_last'.gen.called
             /\ m_last'.kind = "stream" => s_gen'.state = "created"
       /\ FirstNext => (n_gen' = n_gen + 1 /\ resp_cache' = resp_cache)]_vars

\* a streaming request whose messages, model and temperature are a key of
\* the response cache has contacted the backend once more
C14_Witness ==
    /\ m_last.seq > 0
    /\ m_last.streaming
    /\ m_last.kind = "stream"
    /\ m_last.model = "custom-model"
    /\ CacheFind(resp_cache, <<m_last.messages, "custom-model", 70>>) > 0
    /\ s_gen.state # "created"
    /\ n_gen = 2

(***************************************************************************)
(* Claims about the order of the fragments of one streaming response       *)
(***************************************************************************)
\* the lines the loop reads: those before the first line that cannot be
\* parsed, all of them when there is none
ReadableLines(lines) ==
    IF MalformedAt(lines) = {} THEN lines
    ELSE LET first == CHOOSE i \in MalformedAt(lines) :
                         \A j \in MalformedAt(lines) : i <= j
         IN  SubSeq(lines, 1, first - 1)

IsPrefix(s, t) == Len(s) <= Len(t) /\ s = SubSeq(t, 1, Len(s))

\* C15 as stated: the fragments delivered by a streaming response are
\* exactly the content fields of the backend's non-empty lines that carry
\* one, in the order received.
C15_Original ==
    /\ s_backend.connect = "ok" => IsPrefix(s_delivered, ContentTexts(s_backend.lines))
    /\ (StreamFinished /\ s_backend.connect = "ok") =>
          s_delivered = ContentTexts(s_backend.lines)

\* C15 amended: the fragments delivered are, in the order received and
\* none twice, the content fields of the lines that carry one and arrive
\* before the first line that cannot be parsed; at every moment the
\* consumer holds a prefix of them and at the end of the stream all of them.
C15_OrderedFragments ==
    s_backend.connect = "ok" =>
        LET texts == ContentTexts(ReadableLines(s_backend.lines))
            delivered == SelectSeq(s_delivered, IsNoErrorFragment)
        IN  /\ IsPrefix(delivered, texts)
            /\ StreamFinished => delivered = texts

\* two different fragments were delivered around a line without content
C15_Witness ==
    /\ StreamFinished
    /\ Len(s_backend.lines) = 3
    /\ s_backend.lines[2].kind \in {"empty", "nocontent"}
    /\ Len(s_delivered) = 2
    /\ s_delivered[1] # s_delivered[2]

(***************************************************************************)
(* Claims about the caches                                                 *)
(***************************************************************************)
EntriesFor(cache, key) == {i \in 1..Len(cache) : cache[i].key = key}

\* the values the threads' own calls of the wrapped function produced
Produced ==
    {t_workers[w].computed.val : w \in {v \in Workers : t_workers[v].computed.exc = "none"}}

BothDone == \A w \in Workers : t_workers[w].pc = "done"

\* C16: when two calls race to fill a cache for the same key that is not
\* cached, both may call the backend, each returns what its own call
\* produced (or, after a hit, what the other's call produced), the cache
\* never holds more than one entry for the key, and once both have returned
\* with a value produced the cache holds exactly one entry for the key, with
\* one of the produced values, which a later call returns from the cache.
C16_RaceOnOneKey ==
    /\ Cardinality(EntriesFor(l_cache, RaceKey)) <= 1
    /\ Len(l_cache) <= cache_size
    /\ \A w \in Workers :
          t_workers[w].pc = "done" =>
             \/ t_workers[w].res = t_workers[w].computed
             \/ /\ t_workers[w].computed = NotCalled
                /\ t_workers[w].res.exc = "none"
                /\ t_workers[w].res.val \in Produced
    /\ (BothDone /\ Produced # {}) =>
          /\ Cardinality(EntriesFor(l_cache, RaceKey)) = 1
          /\ l_cache[CacheFind(l_cache, RaceKey)].val \in Produced
          /\ t_later # NotCalled =>
                /\ t_later = Ok(l_cache[CacheFind(l_cache, RaceKey)].val)
                /\ l_last.hit
                /\ l_last.calls = 0

\* both threads missed, called the backend and got different values, and
\* the later call has returned
C16_Witness ==
    /\ BothDone
    /\ \A w \in Workers : t_workers[w].computed.exc = "none"
    /\ t_workers[1].computed # t_workers[2].computed
    /\ t_later # NotCalled

(***************************************************************************)
(* Claims about retries and about requests that fail validation            *)
(***************************************************************************)
\* C17: within one blocking request the generation backend is called at
\* most once, exactly when the response cache misses; if that call fails,
\* main returns an error text, nothing is stored and no second call is made.
C17_NoRetry ==
    [][(IsRequest /\ ~m_last'.streaming) =>
          /\ n_gen' \in {n_gen, n_gen + 1}
          /\ n_gen' = n_gen + 1 <=> (m_last'.gen.called /\ ~m_last'.gen.hit)
          /\ (m_last'.gen.called /\ m_last'.gen.res.exc # "none") =>
                /\ n_gen' = n_gen + 1
                /\ m_last'.kind = "error"
                /\ IsErrorFragment(m_last'.val)
                /\ resp_cache' = resp_cache]_vars

\* the only generation call so far failed and was reported
C17_Witness ==
    /\ m_last.seq = 1
    /\ ~m_last.streaming
    /\ m_last.gen.called
    /\ m_last.gen.res.exc = "RequestException"
    /\ m_last.kind = "error"
    /\ n_gen = 1

IsInvalid(text) == TrimmedLen(text) < 5 \/ Len(text) > max_input_length

\* C20: a request whose input fails validation returns an error text, in
\* blocking and in streaming mode, without a call of the embedding backend,
\* the vector index or the generation backend, and leaves both caches and
\* the stream of an earlier request as they were.
C20_InvalidRequestFrame ==
    [][(IsRequest /\ IsInvalid(m_last'.text)) =>
          /\ m_last'.kind = "error"
          /\ m_last'.exc = "none"
          /\ IsErrorFragment(m_last'.val)
          /\ ~m_last'.retr.called
          /\ ~m_last'.gen.called
          /\ n_embed' = n_embed /\ n_index' = n_index /\ n_gen' = n_gen
          /\ ctx_cache' = ctx_cache /\ resp_cache' = resp_cache
          /\ UNCHANGED <<s_vars, r_last, g_last>>]_vars

\* a streaming request with an invalid text was answered with an error text
\* after an earlier request had filled both caches
C20_Witness ==
    /\ m_last.seq = 2
    /\ m_last.streaming
    /\ IsInvalid(m_last.text)
    /\ m_last.kind = "error"
    /\ ctx_cache # <<>>
    /\ resp_cache # <<>>
    /\ n_gen = 1

(***************************************************************************)
(* Claims about the capacity of the caches and what they store             *)
(***************************************************************************)
CacheKeys(cache) == {cache[i].key : i \in 1..Len(cache)}

\* the place of a key in the list of keys by last use
LastUse(key) == CHOOSE i \in 1..Len(l_recent) : l_recent[i] = key

\* the cached key whose last use (insertion or hit) is the oldest
LeastRecentlyUsed ==
    CHOOSE k \in CacheKeys(l_cache) : \A h \in CacheKeys(l_cache) : LastUse(k) <= LastUse(h)

\* this call stores a key that was not in the cache
Inserts == l_last'.key \notin CacheKeys(l_cache) /\ l_last'.res.exc = "none"

\* C18: a cache never holds more than cache_size entries nor a key twice;
\* a call that stores a new key in a full cache removes the entry whose last
\* insertion or hit is the oldest and keeps every other entry, and no other
\* call removes an entry.
C18_BoundedLru ==
    [][/\ Len(l_cache') <= cache_size
       /\ Cardinality(CacheKeys(l_cache')) = Len(l_cache')
       /\ (Inserts /\ Len(l_cache) >= cache_size) =>
             CacheKeys(l_cache') =
                (CacheKeys(l_cache) \ {LeastRecentlyUsed}) \cup {l_last'.key}
       /\ (Inserts /\ Len(l_cache) < cache_size) =>
             CacheKeys(l_cache') = CacheKeys(l_cache) \cup {l_last'.key}
       /\ ~Inserts => CacheKeys(l_cache') = CacheKeys(l_cache)
       /\ \A i \in 1..Len(l_cache), j \in 1..Len(l_cache') :
             l_cache[i].key = l_cache'[j].key => l_cache[i].val = l_cache'[j].val]_vars

\* a new key was stored in a full cache after a hit had made the oldest
\* entry the most recent one: the entry inserted second was removed
C18_Witness ==
    /\ Len(l_cache) = cache_size
    /\ ~l_last.hit
    /\ l_last.res.exc = "none"
    /\ l_cache[Len(l_cache)].key = l_last.key
    /\ CacheFind(l_cache, CacheKey(l_kind, 0)) > 0
    /\ CacheFind(l_cache, CacheKey(l_kind, 1)) = 0
    /\ Len(l_recent) > cache_size
    /\ l_recent[1] = CacheKey(l_kind, 1)

\* C19: a retrieval that fails stores the empty string for its query; as
\* long as that entry is in the context cache a retrieval of the query
\* returns the empty string from the cache without a call of the embedding
\* backend or the vector index, also when the backends work again; the
\* entry changes only by being removed.
C19_FailureCached ==
    [][l_kind = "context" =>
          LET key == l_last'.key
              i == CacheFind(l_cache, key)
              j == CacheFind(l_cache', key)
          IN  /\ l_last'.failed =>
                    /\ l_last'.res = Ok(<<>>)
                    /\ j > 0
                    /\ l_cache'[j].val = <<>>
              /\ (i > 0 /\ l_cache[i].val = <<>>) =>
                    /\ l_last'.hit
                    /\ l_last'.res = Ok(<<>>)
                    /\ l_last'.calls = 0
                    /\ j > 0
                    /\ l_cache'[j].val = <<>>
              /\ \A h \in 1..Len(l_cache), k \in 1..Len(l_cache') :
                    l_cache[h].key = l_cache'[k].key => l_cache[h].val = l_cache'[k].val]_vars

\* a query whose retrieval had failed is answered with the empty string
\* from the cache although the backends would answer now
C19_Witness ==
    /\ l_kind = "context"
    /\ l_last.hit
    /\ l_last.res = Ok(<<>>)
    /\ l_last.calls = 0
    /\ l_last.recovered
    /\ Len(l_cache) = cache_size

====
